---- MODULE Spec2Model ----
(***************************************************************************)
(* Service directory: the REST endpoints of sd/api.py over the relational  *)
(* schema of sd/model.py.                                                  *)
(*                                                                         *)
(* The database is the only state.  It is modelled as three tables: api,   *)
(* service and the joining table service_api.  The ORM is modelled by its  *)
(* contract: query(cls).filter_by(...).first() returns some matching row   *)
(* or None, add/delete followed by commit insert or remove the row, and a  *)
(* relationship with a secondary table keeps the rows of that table.       *)
(* Python name resolution follows the language: an attribute a module does *)
(* not define raises AttributeError.                                       *)
(* The def lines of model.py that lack their colon are read as the         *)
(* definitions they introduce, and "model" in api.py as sd/model.py.       *)
(***************************************************************************)
EXTENDS Integers, Sequences, FiniteSets, TLC

\* ------------------------------------------------------------------ bounds
NumLabels == 2
MaxRows == 2
NumClients == 2
NumOwners == 2

LabelNames == <<"alpha", "beta", "gamma", "delta", "epsilon">>
Labels == {LabelNames[i] : i \in 1..NumLabels}
Clients == 1..NumClients
Owners == 1..NumOwners
ServiceTypes == {"compute"}
Endpoints == {"http://e1"}

VARIABLES
    apis,      \* rows of table api: [id, label]
    services,  \* rows of table service: [id, label, service_type, endpoint]
    links,     \* rows of table service_api: [service_id, api_id]
    inner,     \* rows of an owned ("namespaced") table: [id, label, owner]
    gone,      \* history: per class, labels deleted and not created again
    pre,       \* history: tables and gone as they were before the last call
    resp,      \* the last call and how it ended
    pc         \* per client, the position of its request (interleaved runs)

vars == <<apis, services, links, inner, gone, pre, resp, pc>>

\* ------------------------------------------------------------------ schema

\* model.py: the classes the module defines that map to tables.
ModelClasses == {"Service", "API"}

\* model.py: the foreign keys of the joining table, column -> referenced table.
service_api == [service_id |-> "user", api_id |-> "api"]

\* Model.__tablename__: the class name in lower case.
tablename(cls) ==
    IF cls = "Service" THEN "service"
    ELSE IF cls = "API" THEN "api"
    ELSE "group"

Store == [apis |-> apis, services |-> services, links |-> links]

\* The rows of a table of the metadata; a table the metadata does not define
\* has none.
Rows(st, table) ==
    IF table = "api" THEN st.apis
    ELSE IF table = "service" THEN st.services
    ELSE {}

\* session.query(cls)
query(st, cls) == Rows(st, tablename(cls))

\* .filter_by(label=name).first(): the candidates for the row returned; the
\* empty set stands for None.  No ORDER BY: any matching row may come first.
first_by_label(st, cls, name) == {r \in query(st, cls) : r.label = name}

\* A database-assigned primary key (Model.id): a key no row of the table
\* holds.  The handlers read a key only to match a row, so which free key is
\* assigned is immaterial; the smallest is taken.
FreeIds(tbl) ==
    {i \in 1..(Cardinality(tbl) + 1) :
        /\ \A r \in tbl : r.id # i
        /\ \A j \in 1..(i - 1) : \E r \in tbl : r.id = j}

\* The HTTP status of an outcome: APIError subclasses carry status_code; an
\* exception that is no APIError is a server error.
StatusCode(outcome) ==
    CASE outcome = "ok" -> 200
      [] outcome = "DuplicateError" -> 409
      [] outcome = "NotFoundError" -> 404
      [] OTHER -> 500

\* ------------------------------------------------------------------ guards

\* Mutant: the guard never raises.
_assert_absent_never(st, cls, name) == "ok"

\* _assert_absent: DuplicateError if query(cls).filter_by(label).first() is an
\* object, else a normal return.
_assert_absent(st, cls, name) ==
    IF first_by_label(st, cls, name) # {} THEN "DuplicateError" ELSE "ok"

\* Mutant: the guard returns None instead of raising.
_must_find_lenient(st, cls, name) ==
    IF first_by_label(st, cls, name) = {}
    THEN {[outcome |-> "ok", obj |-> {}]}
    ELSE {[outcome |-> "ok", obj |-> {r}] : r \in first_by_label(st, cls, name)}

\* _must_find: NotFoundError if there is no such object, else the object.
\* The result is the set of possible results, obj a set of at most one row.
_must_find(st, cls, name) ==
    IF first_by_label(st, cls, name) = {}
    THEN {[outcome |-> "NotFoundError", obj |-> {}]}
    ELSE {[outcome |-> "ok", obj |-> {r}] : r \in first_by_label(st, cls, name)}

\* Mutant: the owner filter is dropped.
_namespaced_query_any_owner(session, obj_outer, cls_inner, name_inner) ==
    {r \in session[cls_inner] : r.label = name_inner}

\* _namespaced_query: query(cls_inner).filter_by(owner=obj_outer)
\* .filter_by(label=name_inner).first(); the candidates for the row returned,
\* the empty set for None.  session maps a class to its rows, obj_outer is the
\* identity of the owner.
_namespaced_query(session, obj_outer, cls_inner, name_inner) ==
    {r \in session[cls_inner] : r.owner = obj_outer /\ r.label = name_inner}

\* _assert_absent_n: DuplicateError if the owned object is not None.
_assert_absent_n(session, obj_outer, cls_inner, name_inner) ==
    IF _namespaced_query(session, obj_outer, cls_inner, name_inner) # {}
    THEN "DuplicateError"
    ELSE "ok"

\* _must_find_n: NotFoundError if the owned object is None, else the object.
_must_find_n(session, obj_outer, cls_inner, name_inner) ==
    IF _namespaced_query(session, obj_outer, cls_inner, name_inner) = {}
    THEN {[outcome |-> "NotFoundError", obj |-> {}]}
    ELSE {[outcome |-> "ok", obj |-> {r}]
             : r \in _namespaced_query(session, obj_outer, cls_inner, name_inner)}

\* ------------------------------------------------------------------ session

\* Service.__init__, db.add(service), db.commit(): the service row and, for
\* the api relationship, a row of the joining table.
add_service(st, id, label, service_type, api, endpoint) ==
    [st EXCEPT
        !.services = @ \cup {[id |-> id, label |-> label,
                              service_type |-> service_type,
                              endpoint |-> endpoint]},
        !.links = @ \cup {[service_id |-> id, api_id |-> api.id]}]

\* Mutant: the delete is never flushed.
db_delete_noop(st, cls, obj) == st

\* db.delete(obj), db.commit(): the row goes, and with it the rows of the
\* joining table the relationship (and its backref) holds for it.
db_delete(st, cls, obj) ==
    IF cls = "Service"
    THEN [st EXCEPT !.services = {r \in @ : r.id # obj.id},
                    !.links = {l \in @ : l.service_id # obj.id}]
    ELSE [st EXCEPT !.apis = {r \in @ : r.id # obj.id},
                    !.links = {l \in @ : l.api_id # obj.id}]

\* ------------------------------------------------------------------ endpoints
\* Each endpoint maps the database and its arguments to the set of possible
\* results [st, outcome, guards]: the database after the request, how the
\* request ended, and the guard calls it made, in order.

Result(st, outcome, guards) == [st |-> st, outcome |-> outcome, guards |-> guards]

\* Mutant: the service is stored without resolving the api.
service_create_unresolved(st, service, service_type, api, endpoint) ==
    IF _assert_absent(st, "Service", service) # "ok"
    THEN {Result(st, "DuplicateError", <<"_assert_absent">>)}
    ELSE {Result([st EXCEPT !.services = @ \cup
                     {[id |-> id, label |-> service,
                       service_type |-> service_type, endpoint |-> endpoint]}],
                 "ok", <<"_assert_absent">>) : id \in FreeIds(st.services)}

\* PUT /service/<service>
service_create(st, service, service_type, api, endpoint) ==
    IF _assert_absent(st, "Service", service) # "ok"
    THEN {Result(st, "DuplicateError", <<"_assert_absent">>)}
    ELSE UNION {
        IF f.outcome # "ok"
        THEN {Result(st, f.outcome, <<"_assert_absent", "_must_find">>)}
        ELSE {Result(add_service(st, id, service, service_type, a, endpoint),
                     "ok", <<"_assert_absent", "_must_find">>)
                 : id \in FreeIds(st.services), a \in f.obj}
        : f \in _must_find(st, "API", api)}

\* DELETE /service/<service>
service_delete(st, service) ==
    UNION {
        IF f.outcome # "ok"
        THEN {Result(st, f.outcome, <<"_must_find">>)}
        ELSE {Result(db_delete(st, "Service", o), "ok", <<"_must_find">>)
                 : o \in f.obj}
        : f \in _must_find(st, "Service", service)}

\* PUT /api/<api>: the guard is given model.Group, a name model.py does not
\* define, so the argument raises AttributeError before the guard is called.
api_create(st, api) ==
    IF "Group" \notin ModelClasses
    THEN {Result(st, "AttributeError", <<>>)}
    ELSE IF _assert_absent(st, "Group", api) # "ok"
    THEN {Result(st, "DuplicateError", <<"_assert_absent">>)}
    ELSE {Result([st EXCEPT !.apis = @ \cup {[id |-> id, label |-> api]}],
                 "ok", <<"_assert_absent">>) : id \in FreeIds(st.apis)}

\* Mutant: the api is deleted by label without looking it up first.
api_delete_unguarded(st, api) ==
    {Result([st EXCEPT !.apis = {r \in @ : r.label # api}], "ok", <<>>)}

\* DELETE /api/<api>
api_delete(st, api) ==
    UNION {
        IF f.outcome # "ok"
        THEN {Result(st, f.outcome, <<"_must_find">>)}
        ELSE {Result(db_delete(st, "API", o), "ok", <<"_must_find">>)
                 : o \in f.obj}
        : f \in _must_find(st, "API", api)}


\* ------------------------------------------------------------------ requests
\* The server answers one request at a time: each action is a whole handler.

Snapshot == [apis |-> apis, services |-> services, links |-> links, gone |-> gone]

Idle == [at |-> "idle", op |-> "none", label |-> "", api |-> "",
         service_type |-> "", endpoint |-> "", obj |-> {}, last |-> "none"]

\* The api tables the server may start with: labels are unique, and so are
\* the keys (a key is only ever compared for equality, so the i-th label is
\* given key i).
ApiTables ==
    {{[id |-> i, label |-> LabelNames[i]] : i \in D} : D \in SUBSET (1..NumLabels)}

\* The server binds to an existing database (init_db with create=False): the
\* api table holds whatever was registered before, no service is stored yet.
Init ==
    /\ apis \in ApiTables
    /\ services = {}
    /\ links = {}
    /\ inner = {}
    /\ gone = [API |-> {}, Service |-> {}]
    /\ pre = [apis |-> apis, services |-> {}, links |-> {},
              gone |-> [API |-> {}, Service |-> {}]]
    /\ resp = [op |-> "none", cls |-> "", label |-> "", api |-> "", owner |-> 0,
               outcome |-> "none", status |-> 0, ret |-> {}, guards |-> <<>>]
    /\ pc = [c \in Clients |-> Idle]

\* rest_call: run the handler, answer with its outcome's status.
Respond(op, cls, label, api, r, created, deleted) ==
    /\ pre' = Snapshot
    /\ apis' = r.st.apis
    /\ services' = r.st.services
    /\ links' = r.st.links
    /\ resp' = [op |-> op, cls |-> cls, label |-> label, api |-> api, owner |-> 0,
                outcome |-> r.outcome, status |-> StatusCode(r.outcome),
                ret |-> {}, guards |-> r.guards]
    /\ gone' = IF r.outcome # "ok" THEN gone
               ELSE IF created THEN [gone EXCEPT ![cls] = @ \ {label}]
               ELSE IF deleted THEN [gone EXCEPT ![cls] = @ \cup {label}]
               ELSE gone
    /\ UNCHANGED <<inner, pc>>

ServiceCreate ==
    \E service \in Labels, service_type \in ServiceTypes, api \in Labels,
       endpoint \in Endpoints :
        \E r \in service_create(Store, service, service_type, api, endpoint) :
            Respond("service_create", "Service", service, api, r, TRUE, FALSE)

ServiceDelete ==
    \E service \in Labels :
        \E r \in service_delete(Store, service) :
            Respond("service_delete", "Service", service, "", r, FALSE, TRUE)

ApiCreate ==
    \E api \in Labels :
        \E r \in api_create(Store, api) :
            Respond("api_create", "API", api, "", r, TRUE, FALSE)

ApiDelete ==
    \E api \in Labels :
        \E r \in api_delete(Store, api) :
            Respond("api_delete", "API", api, "", r, FALSE, TRUE)

\* A call of a guard on its own, on the database as it is.
AssertAbsentCall ==
    \E cls \in ModelClasses, name \in Labels :
        /\ pre' = Snapshot
        /\ resp' = [op |-> "_assert_absent", cls |-> cls, label |-> name,
                    api |-> "", owner |-> 0,
                    outcome |-> _assert_absent(Store, cls, name),
                    status |-> StatusCode(_assert_absent(Store, cls, name)),
                    ret |-> {}, guards |-> <<"_assert_absent">>]
        /\ UNCHANGED <<apis, services, links, inner, gone, pc>>

MustFindCall ==
    \E cls \in ModelClasses, name \in Labels :
        \E f \in _must_find(Store, cls, name) :
            /\ pre' = Snapshot
            /\ resp' = [op |-> "_must_find", cls |-> cls, label |-> name,
                        api |-> "", owner |-> 0, outcome |-> f.outcome,
                        status |-> StatusCode(f.outcome),
                        ret |-> f.obj, guards |-> <<"_must_find">>]
            /\ UNCHANGED <<apis, services, links, inner, gone, pc>>

Next ==
    \/ ServiceCreate
    \/ ServiceDelete
    \/ ApiCreate
    \/ ApiDelete
    \/ AssertAbsentCall
    \/ MustFindCall

Spec == Init /\ [][Next]_vars


\* ------------------------------------------------------------------ owned rows
\* The namespaced helpers, applied to an owned table drawn at the start.

InnerTables ==
    UNION {{{[id |-> i, label |-> f[i][1], owner |-> f[i][2]] : i \in 1..k}
               : f \in [1..k -> Labels \X Owners]}
              : k \in 0..MaxRows}

InitN ==
    /\ apis = {}
    /\ services = {}
    /\ links = {}
    /\ inner \in InnerTables
    /\ gone = [API |-> {}, Service |-> {}]
    /\ pre = [apis |-> {}, services |-> {}, links |-> {},
              gone |-> [API |-> {}, Service |-> {}]]
    /\ resp = [op |-> "none", cls |-> "", label |-> "", api |-> "", owner |-> 0,
               outcome |-> "none", status |-> 0, ret |-> {}, guards |-> <<>>]
    /\ pc = [c \in Clients |-> Idle]

SessionN == [Inner |-> inner]

AssertAbsentNCall ==
    \E owner \in Owners, name \in Labels :
        /\ resp' = [op |-> "_assert_absent_n", cls |-> "Inner", label |-> name,
                    api |-> "", owner |-> owner,
                    outcome |-> _assert_absent_n(SessionN, owner, "Inner", name),
                    status |-> StatusCode(
                        _assert_absent_n(SessionN, owner, "Inner", name)),
                    ret |-> {}, guards |-> <<"_assert_absent_n">>]
        /\ UNCHANGED <<apis, services, links, inner, gone, pre, pc>>

MustFindNCall ==
    \E owner \in Owners, name \in Labels :
        \E f \in _must_find_n(SessionN, owner, "Inner", name) :
            /\ resp' = [op |-> "_must_find_n", cls |-> "Inner", label |-> name,
                        api |-> "", owner |-> owner, outcome |-> f.outcome,
                        status |-> StatusCode(f.outcome),
                        ret |-> f.obj, guards |-> <<"_must_find_n">>]
            /\ UNCHANGED <<apis, services, links, inner, gone, pre, pc>>

NextN ==
    \/ AssertAbsentNCall
    \/ MustFindNCall

SpecN == InitN /\ [][NextN]_vars

\* ------------------------------------------------------------------ interleaving
\* Requests of several clients, each in its own session: a guard reads the
\* committed tables, commit writes them, and other requests run in between.

ClassOf(op) == IF op \in {"api_create", "api_delete"} THEN "API" ELSE "Service"

SetStore(st) ==
    /\ apis' = st.apis
    /\ services' = st.services
    /\ links' = st.links

\* The request is answered; the client keeps the outcome.
Finish(c, op, label, outcome) ==
    pc' = [pc EXCEPT ![c] = [Idle EXCEPT !.last = outcome]]

\* api_create raises before it reads or writes the database.
CApiCreate(c) ==
    /\ pc[c].at = "idle"
    /\ \E api \in Labels :
        \E r \in api_create(Store, api) :
            /\ SetStore(r.st)
            /\ Finish(c, "api_create", api, r.outcome)
    /\ UNCHANGED <<inner, gone, pre, resp>>

\* service_create, line 52: _assert_absent(db, model.Service, service)
CServiceCreateAbsent(c) ==
    /\ pc[c].at = "idle"
    /\ \E service \in Labels, service_type \in ServiceTypes, api \in Labels,
          endpoint \in Endpoints :
        IF _assert_absent(Store, "Service", service) # "ok"
        THEN Finish(c, "service_create", service,
                    _assert_absent(Store, "Service", service))
        ELSE pc' = [pc EXCEPT ![c] =
                      [at |-> "must_find", op |-> "service_create",
                       label |-> service, api |-> api,
                       service_type |-> service_type, endpoint |-> endpoint,
                       obj |-> {}, last |-> "none"]]
    /\ UNCHANGED <<apis, services, links, inner, gone, pre, resp>>

\* service_create, line 53: api = _must_find(db, model.API, api)
CServiceCreateFind(c) ==
    /\ pc[c].at = "must_find"
    /\ \E f \in _must_find(Store, "API", pc[c].api) :
        IF f.outcome # "ok"
        THEN Finish(c, "service_create", pc[c].label, f.outcome)
        ELSE pc' = [pc EXCEPT ![c].at = "commit", ![c].obj = f.obj]
    /\ UNCHANGED <<apis, services, links, inner, gone, pre, resp>>

\* service_create, lines 54-56: the rows are inserted.  When the api row was
\* deleted in between, a database that enforces the foreign key on api_id
\* rejects the commit and one that does not stores the row.
CServiceCreateCommit(c) ==
    /\ pc[c].at = "commit"
    /\ pc[c].op = "service_create"
    /\ \E id \in FreeIds(services), a \in pc[c].obj :
        \/ /\ SetStore(add_service(Store, id, pc[c].label, pc[c].service_type,
                                   a, pc[c].endpoint))
           /\ Finish(c, "service_create", pc[c].label, "ok")
        \/ /\ a \notin apis
           /\ UNCHANGED <<apis, services, links>>
           /\ Finish(c, "service_create", pc[c].label, "IntegrityError")
    /\ UNCHANGED <<inner, gone, pre, resp>>

\* service_delete, line 66 and api_delete, line 94: _must_find
CDeleteFind(c) ==
    /\ pc[c].at = "idle"
    /\ \E op \in {"service_delete", "api_delete"}, label \in Labels :
        \E f \in _must_find(Store, ClassOf(op), label) :
            IF f.outcome # "ok"
            THEN Finish(c, op, label, f.outcome)
            ELSE pc' = [pc EXCEPT ![c] =
                          [Idle EXCEPT !.at = "commit", !.op = op,
                                       !.label = label, !.obj = f.obj]]
    /\ UNCHANGED <<apis, services, links, inner, gone, pre, resp>>

\* service_delete, lines 67-68 and api_delete, lines 95-96: the row is
\* deleted by its primary key; a row already gone matches nothing.
CDeleteCommit(c) ==
    /\ pc[c].at = "commit"
    /\ pc[c].op \in {"service_delete", "api_delete"}
    /\ \E o \in pc[c].obj :
        /\ SetStore(db_delete(Store, ClassOf(pc[c].op), o))
        /\ Finish(c, pc[c].op, pc[c].label, "ok")
    /\ UNCHANGED <<inner, gone, pre, resp>>

NextC ==
    \E c \in Clients :
        \/ CApiCreate(c)
        \/ CServiceCreateAbsent(c)
        \/ CServiceCreateFind(c)
        \/ CServiceCreateCommit(c)
        \/ CDeleteFind(c)
        \/ CDeleteCommit(c)

SpecC == Init /\ [][NextC]_vars

\* ------------------------------------------------------------------ properties

\* The table of a class as it was before the last call.
PreTable(cls) == IF cls = "API" THEN pre.apis ELSE pre.services

\* A row of the class with that label was present before the last call.
PreHas(cls, name) == \E r \in PreTable(cls) : r.label = name

\* The last call left the three tables as they were.
StoreUnchanged ==
    /\ apis = pre.apis
    /\ services = pre.services
    /\ links = pre.links

\* C1: assertAbsent(T, L) returns normally when no record of type T labelled L
\* is present and fails with DuplicateError when one is; the store is the same
\* after the call.
C1_AssertAbsent ==
    resp.op = "_assert_absent" =>
        /\ ~PreHas(resp.cls, resp.label) => resp.outcome = "ok"
        /\ PreHas(resp.cls, resp.label) => resp.outcome = "DuplicateError"
        /\ StoreUnchanged

C1_Witness ==
    /\ resp.op = "_assert_absent"
    /\ resp.cls = "Service"
    /\ resp.outcome = "DuplicateError"
    /\ \E r \in services : r.label # resp.label

\* C2: mustFind(T, L) returns a record of type T labelled L when one is
\* present and fails with NotFoundError when none is; the store is the same
\* after the call.
C2_MustFind ==
    resp.op = "_must_find" =>
        /\ PreHas(resp.cls, resp.label) =>
              /\ resp.outcome = "ok"
              /\ Cardinality(resp.ret) = 1
              /\ \A o \in resp.ret : o \in PreTable(resp.cls) /\ o.label = resp.label
        /\ ~PreHas(resp.cls, resp.label) =>
              /\ resp.outcome = "NotFoundError"
              /\ resp.ret = {}
        /\ StoreUnchanged

C2_Witness ==
    /\ resp.op = "_must_find"
    /\ resp.cls = "Service"
    /\ resp.outcome = "ok"
    /\ \E r \in services : r.label # resp.label

\* C3: PUT /api/L answers 2xx and leaves an API labelled L present when none
\* was, and answers 409 and stores nothing when one was.
C3_ApiCreate ==
    resp.op = "api_create" =>
        /\ ~PreHas("API", resp.label) =>
              /\ resp.status \in 200..299
              /\ \E r \in apis : r.label = resp.label
        /\ PreHas("API", resp.label) =>
              /\ resp.status = 409
              /\ apis = pre.apis

Mutated ==
    /\ resp.op \in {"api_create", "api_delete", "service_create", "service_delete"}
    /\ ~StoreUnchanged

\* C9 as stated: every mutation by an endpoint comes after exactly one guard
\* call of the same request.
C9_Original == Mutated => Len(resp.guards) = 1

\* C9 amended: every mutation by an endpoint comes after at least one guard
\* call of the same request, never zero: exactly one (mustFind) in api_delete
\* and service_delete, exactly two (assertAbsent on the service, then mustFind
\* on the api) in service_create.
C9_Amended ==
    Mutated =>
        /\ Len(resp.guards) >= 1
        /\ resp.op \in {"api_delete", "service_delete"} =>
              resp.guards = <<"_must_find">>
        /\ resp.op = "service_create" =>
              resp.guards = <<"_assert_absent", "_must_find">>

C9_Witness ==
    /\ Mutated
    /\ resp.op = "service_create"
    /\ Len(resp.guards) = 2

C7_UniqueLabels ==
    \A cls \in ModelClasses, name \in Labels :
        Cardinality(first_by_label(Store, cls, name)) <= 1

\* A row labelled name owned by owner is in the owned table.
Owns(owner, name) == \E r \in inner : r.owner = owner /\ r.label = name

\* C8: assertAbsentNamespaced(O, n) fails with DuplicateError exactly when a
\* record labelled n owned by O is present, whatever other owners hold, and
\* mustFindNamespaced(O, n) returns only a record labelled n owned by O.
C8_PerOwner ==
    /\ resp.op = "_assert_absent_n" =>
          /\ Owns(resp.owner, resp.label) => resp.outcome = "DuplicateError"
          /\ ~Owns(resp.owner, resp.label) => resp.outcome = "ok"
    /\ resp.op = "_must_find_n" =>
          /\ Owns(resp.owner, resp.label) =>
                /\ resp.outcome = "ok"
                /\ Cardinality(resp.ret) = 1
          /\ ~Owns(resp.owner, resp.label) =>
                /\ resp.outcome = "NotFoundError"
                /\ resp.ret = {}
          /\ \A o \in resp.ret :
                o \in inner /\ o.owner = resp.owner /\ o.label = resp.label

C8_Witness ==
    /\ resp.op = "_assert_absent_n"
    /\ resp.outcome = "ok"
    /\ \E r \in inner : r.label = resp.label /\ r.owner # resp.owner
    /\ \E r \in inner : r.label # resp.label /\ r.owner = resp.owner

====
